---- MODULE Spec2Model ----
(***************************************************************************)
(* Model of the grid simulation of pysmallgames/snake/snake.py: the Snake  *)
(* class (body deque, heading, speed) and the Game session (food, score,   *)
(* the per-frame update of Game.run and the key handler).                  *)
(*                                                                         *)
(* One step of the model is one whole handler: one iteration of the frame  *)
(* loop of Game.run (timer test, move, eat test, eat, score, speed, food)  *)
(* or one KEYDOWN event given to Game.check_keydown_events.                *)
(*                                                                         *)
(* The source plays on a 20 x 20 grid with the snake starting at (8, 5).   *)
(* The model plays on an nx x ny grid with the snake starting at (2, 2),   *)
(* the smallest board on which the three start cells fit for each of the   *)
(* four start headings; every rule is the source's rule with GEOMETRY and  *)
(* SNAKE_PROPS.pos read from these definitions.                            *)
(***************************************************************************)
EXTENDS Integers, Sequences, FiniteSets

\* ---------------------------------------------------------------- bounds
\* GEOMETRY['nx'], GEOMETRY['ny'] scaled down from 20 x 20.
nx == 5
ny == 5
\* The move timer of the frame loop no longer elapses once the body has
\* MaxLen cells.
MaxLen == 6
\* Snake.__init__ is called directly with lengths 1..MaxUnitLen.
MaxUnitLen == 3
\* Game.generate_food is called directly on bodies that leave at most
\* MaxFree cells of the grid free.
MaxFree == 7

\* ------------------------------------------------------------- constants
SCORES == <<150, 300, 500, 750, 1100, 1500, 2000, 2500>>

MOTIONS == [right |-> <<1, 0>>, left |-> <<-1, 0>>, up |-> <<0, -1>>, down |-> <<0, 1>>]

\* The values of DIRECTIONS: the headings the four direction keys ask for.
DIRECTIONS == {"left", "right", "up", "down"}

\* SNAKE_PROPS without its direction, which is drawn once at import time
\* (see props_direction).
SNAKE_PROPS == [pos |-> <<2, 2>>, length |-> 3, speed |-> 4]

\* self.score += 50
REWARD == 50

VARIABLES
    grids,            \* Snake.grids: the body, head first
    direction,        \* Snake.direction
    speed,            \* Snake.speed
    food,             \* Game.food
    score,            \* Game.score
    props_direction,  \* SNAKE_PROPS.direction, chosen once by choice([...])
    call              \* the last direct call of a method: its name, its
                      \* arguments and whether it raised; GAME while the
                      \* methods are called by the Game session only

vars == <<grids, direction, speed, food, score, props_direction, call>>

\* no method has been called from outside the Game session
GAME == [op |-> "Game", arg |-> <<>>, raised |-> FALSE]

\* ---------------------------------------------------------------- helpers
\* list(range(start, stop, step)) for step # 0
RECURSIVE range(_, _, _)
range(start, stop, step) ==
    IF (step > 0 /\ start >= stop) \/ (step < 0 /\ start <= stop)
    THEN <<>>
    ELSE <<start>> \o range(start + step, stop, step)

\* deque.appendleft(c)
appendleft(g, c) == <<c>> \o g

\* deque.pop(): drops the rightmost cell
pop(g) == SubSeq(g, 1, Len(g) - 1)

\* set(self.grids), also the test "(x, y) in self.snake.grids"
cells(g) == {g[i] : i \in DOMAIN g}

\* bisect.bisect(a, x) = bisect_right: the binary search of the library
RECURSIVE bisect_loop(_, _, _, _)
bisect_loop(a, x, lo, hi) ==
    IF lo < hi
    THEN LET mid == (lo + hi) \div 2
         IN IF x < a[mid + 1]
            THEN bisect_loop(a, x, lo, mid)
            ELSE bisect_loop(a, x, mid + 1, hi)
    ELSE lo

bisect(a, x) == bisect_loop(a, x, 0, Len(a))

\* ------------------------------------------------------------------ Snake
init_grids_forward(pos, length, dir) ==
    [i \in 1..length |->
        <<pos[1] + (i - 1) * MOTIONS[dir][1], pos[2] + (i - 1) * MOTIONS[dir][2]>>]

\* Snake.__init__: the cells of a new snake
init_grids(pos, length, dir) ==
    LET motion == MOTIONS[dir]
    IN IF dir \in {"left", "right"}
       THEN LET xs == range(pos[1], pos[1] - length * motion[1], -motion[1])
            IN [i \in 1..Len(xs) |-> <<xs[i], pos[2]>>]
       ELSE LET ys == range(pos[2], pos[2] - length * motion[2], -motion[2])
            IN [i \in 1..Len(ys) |-> <<pos[1], ys[i]>>]

\* Snake.target
target(g, dir) == <<g[1][1] + MOTIONS[dir][1], g[1][2] + MOTIONS[dir][2]>>

move_pops(g, dir) ==
    LET t == target(g, dir)
    IN IF 0 <= t[1] /\ t[1] < nx /\ 0 <= t[2] /\ t[2] < ny
       THEN pop(appendleft(g, t))
       ELSE pop(appendleft(g, g[1]))

move_keeps_tail(g, dir) ==
    LET t == target(g, dir)
    IN IF 0 <= t[1] /\ t[1] < nx /\ 0 <= t[2] /\ t[2] < ny
       THEN appendleft(g, t)
       ELSE appendleft(g, g[1])

\* Snake.move
move(g, dir) ==
    LET t == target(g, dir)
    IN IF 0 <= t[1] /\ t[1] < nx /\ 0 <= t[2] /\ t[2] < ny
       THEN pop(appendleft(g, t))
       ELSE appendleft(g, g[1])

eat_head(g, dir) == appendleft(g, g[1])

eat_jump(g, dir) ==
    appendleft(g, <<g[1][1] + 2 * MOTIONS[dir][1], g[1][2] + 2 * MOTIONS[dir][2]>>)

\* Snake.eat
eat(g, dir) == appendleft(g, target(g, dir))

set_direction_heading(g, dir, d) ==
    IF \E i \in 1..2 : MOTIONS[dir][i] + MOTIONS[d][i] # 0 THEN d ELSE dir

set_direction_any(g, dir, d) == d

set_direction_all(g, dir, d) ==
    LET neck_direction == [i \in 1..2 |-> g[1][i] - g[2][i]]
    IN IF \A i \in 1..2 : neck_direction[i] + MOTIONS[d][i] # 0 THEN d ELSE dir

\* Snake.set_direction, "self.grids[1]": IndexError on a deque of one cell
set_direction_raises(g) == Len(g) < 2

\* Snake.set_direction: the heading after the call
set_direction(g, dir, d) ==
    LET neck_direction == [i \in 1..2 |-> g[1][i] - g[2][i]]
    IN IF \E i \in 1..2 : neck_direction[i] + MOTIONS[d][i] # 0 THEN d ELSE dir

\* Snake.alive
alive(g) == Cardinality(cells(g)) = Len(g)

\* ------------------------------------------------------------------- Game
generate_food_all(g) ==
    {c \in (0..(nx - 1)) \X (0..(ny - 1)) : c \notin cells(g)}

generate_food_inner(g) ==
    {c \in (0..(nx - 1)) \X (0..(ny - 1)) :
        /\ c \notin cells(g)
        /\ c[1] \notin {0, nx - 1} /\ c[2] \notin {0, ny - 1}}

generate_food_any(g) ==
    {c \in (0..(nx - 1)) \X (0..(ny - 1)) :
        c[1] \notin {0, nx - 1} \/ c[2] \notin {0, ny - 1}}

\* Game.generate_food: the list foods that choice() draws from
generate_food(g) ==
    {c \in (0..(nx - 1)) \X (0..(ny - 1)) :
        /\ c \notin cells(g)
        /\ (c[1] \notin {0, nx - 1} \/ c[2] \notin {0, ny - 1})}

reset_current_heading ==
    /\ grids' = init_grids(SNAKE_PROPS.pos, SNAKE_PROPS.length, direction)
    /\ direction' = direction
    /\ speed' = SNAKE_PROPS.speed
    /\ score' = 0
    /\ food' \in generate_food(grids')
    /\ UNCHANGED <<props_direction, call>>

reset_keeps_score ==
    /\ grids' = init_grids(SNAKE_PROPS.pos, SNAKE_PROPS.length, props_direction)
    /\ direction' = props_direction
    /\ speed' = SNAKE_PROPS.speed
    /\ food' \in generate_food(grids')
    /\ UNCHANGED <<score, props_direction, call>>

\* Game.reset (choice(foods) raises on an empty list: no step then)
reset ==
    /\ grids' = init_grids(SNAKE_PROPS.pos, SNAKE_PROPS.length, props_direction)
    /\ direction' = props_direction
    /\ speed' = SNAKE_PROPS.speed
    /\ score' = 0
    /\ food' \in generate_food(grids')
    /\ UNCHANGED <<props_direction, call>>

\* State after Game.__init__
Init ==
    /\ props_direction \in DIRECTIONS
    /\ grids = init_grids(SNAKE_PROPS.pos, SNAKE_PROPS.length, props_direction)
    /\ direction = props_direction
    /\ speed = SNAKE_PROPS.speed
    /\ score = 0
    /\ food \in generate_food(grids)
    /\ call = GAME

moved_dead(elapsed) ==
    IF elapsed THEN move(grids, direction) ELSE grids

\* Game.run, "if self.snake.alive: if tpc() - start_time > ...: move()":
\* the body after the timer test of one frame
moved(elapsed) ==
    IF alive(grids) /\ elapsed THEN move(grids, direction) ELSE grids

new_speed_left(s) ==
    Cardinality({i \in DOMAIN SCORES : SCORES[i] < s}) + SNAKE_PROPS.speed

\* Game.run, "self.snake.speed = bisect.bisect(SCORES, self.score) + ..."
new_speed(s) == bisect(SCORES, s) + SNAKE_PROPS.speed

new_score_double(s) == s + 2 * REWARD

\* Game.run, "self.score += 50"
new_score(s) == s + REWARD

\* Game.run: one iteration of the frame loop; elapsed is the timer test
Frame(elapsed) ==
    LET g1 == moved(elapsed)
        eats == g1[1] = food
    IN /\ (alive(grids) /\ elapsed) => Len(grids) < MaxLen
       /\ IF eats
          THEN /\ grids' = eat(g1, direction)
               /\ score' = new_score(score)
               /\ speed' = new_speed(score')
               /\ food' \in generate_food(grids')
          ELSE /\ grids' = g1
               /\ UNCHANGED <<score, speed, food>>
       /\ UNCHANGED <<direction, props_direction, call>>

\* Game.check_keydown_events, "elif event.key in DIRECTIONS"
KeyDirection(d) ==
    /\ direction' = set_direction(grids, direction, d)
    /\ UNCHANGED <<grids, speed, food, score, props_direction, call>>

KeyReturn_unguarded == reset

\* Game.check_keydown_events, "elif event.key == K_RETURN and not alive"
KeyReturn ==
    IF ~alive(grids)
    THEN reset
    ELSE UNCHANGED vars

Next ==
    \/ \E elapsed \in BOOLEAN : Frame(elapsed)
    \/ \E d \in DIRECTIONS : KeyDirection(d)
    \/ KeyReturn

Spec == Init /\ [][Next]_vars

TypeOK ==
    /\ grids \in Seq(Int \X Int)
    /\ direction \in DIRECTIONS
    /\ props_direction \in DIRECTIONS
    /\ speed \in Nat
    /\ score \in Nat
    /\ food \in (0..(nx - 1)) \X (0..(ny - 1))
    /\ call = GAME

\* ------------------------------------------------------------- properties
GridCells == (0..(nx - 1)) \X (0..(ny - 1))

Corners == {<<0, 0>>, <<0, ny - 1>>, <<nx - 1, 0>>, <<nx - 1, ny - 1>>}

InGrid(c) == 0 <= c[1] /\ c[1] < nx /\ 0 <= c[2] /\ c[2] < ny

Plus(c, v) == <<c[1] + v[1], c[2] + v[2]>>

Neg(v) == <<0 - v[1], 0 - v[2]>>

\* head cell minus second cell
NeckToHead(g) == <<g[1][1] - g[2][1], g[1][2] - g[2][2]>>

\* the body without its last cell
Front(g) == SubSeq(g, 1, Len(g) - 1)

FrameStep == \E elapsed \in BOOLEAN : Frame(elapsed)

DirectionStep == \E d \in DIRECTIONS : KeyDirection(d)

\* C1: once the snake is not alive, a tick (a frame of the loop) changes
\* neither the body cells nor the score, the speed or the food cell.
C1_DeadTickChangesNothing ==
    [][(~alive(grids) /\ FrameStep) => UNCHANGED <<grids, score, speed, food>>]_vars

\* A dead snake that has eaten: every frame from here is a step of C1.
C1_Witness == ~alive(grids) /\ score > 0

\* C2: a direction input while the snake is not alive leaves the heading
\* as it was.
C2_DeadDirectionInputIsNoop ==
    [][(~alive(grids) /\ DirectionStep) => direction' = direction]_vars

\* C3 as claimed: with a body of length >= 2, a set_direction call never
\* leaves the heading equal to the opposite of the heading held just before
\* the call.
C3_NeverOppositeOfPreviousHeading ==
    [][(Len(grids) >= 2 /\ DirectionStep)
          => MOTIONS[direction'] # Neg(MOTIONS[direction])]_vars

\* C3 as amended: with a body of length >= 2, a set_direction call never
\* leaves the heading equal to the opposite of the neck-to-head vector.
C3_NeverOppositeOfNeck ==
    [][(Len(grids) >= 2 /\ DirectionStep)
          => MOTIONS[direction'] # Neg(NeckToHead(grids))]_vars

\* A live snake whose heading is no longer its neck-to-head vector: a
\* set_direction call has accepted a turn since the last tick.
C3_Witness ==
    /\ alive(grids)
    /\ Len(grids) >= 2
    /\ MOTIONS[direction] # NeckToHead(grids)

\* C4: in every reachable state the one food cell is a grid cell that is
\* no cell of the snake's body.
C4_FoodNotOnSnake == food \in GridCells /\ food \notin cells(grids)

\* Food placed after the second eat, next to a grown live snake.
C4_Witness == score >= 2 * REWARD /\ alive(grids) /\ Len(grids) > SNAKE_PROPS.length

\* C5 as claimed: every grid cell that is no body cell is a candidate of the
\* food placement.
C5_EveryFreeCellIsCandidate ==
    \A c \in GridCells : c \notin cells(grids) => c \in generate_food(grids)

\* C5 as amended: the candidates of the food placement are exactly the grid
\* cells that are neither a body cell nor one of the four corner cells.
C5_CandidatesAreFreeNonCorners ==
    generate_food(grids) = {c \in GridCells : c \notin cells(grids) /\ c \notin Corners}

\* After an eat, with one corner under the snake and another corner free.
C5_Witness ==
    /\ score > 0
    /\ \E c \in Corners : c \in cells(grids)
    /\ \E c \in Corners : c \notin cells(grids)

\* C6: a move whose target cell is outside the grid pushes a copy of the
\* head in front, pops nothing, and leaves the snake not alive.
C6_MoveOutOfGrid ==
    [][(alive(grids) /\ ~InGrid(Plus(grids[1], MOTIONS[direction])) /\ Frame(TRUE))
          => /\ grids' = <<grids[1]>> \o grids
             /\ Len(grids') = Len(grids) + 1
             /\ grids'[1] = grids[1]
             /\ ~alive(grids')]_vars

\* The two front cells are the same cell on the border of the grid.
C6_Witness ==
    /\ Len(grids) >= 2
    /\ grids[1] = grids[2]
    /\ InGrid(grids[1])
    /\ ~InGrid(Plus(grids[1], MOTIONS[direction]))

\* C7: a move whose target cell is inside the grid makes the body the target
\* followed by the old body without its last cell (the eat of the same frame,
\* when the target is the food, is applied to that body).
C7_MoveInGrid ==
    [][(alive(grids) /\ InGrid(Plus(grids[1], MOTIONS[direction])) /\ Frame(TRUE))
          => LET t == Plus(grids[1], MOTIONS[direction])
                 shifted == <<t>> \o Front(grids)
             IN /\ Len(shifted) = Len(grids)
                /\ \A i \in 2..Len(grids) : shifted[i] = grids[i - 1]
                /\ IF t = food
                   THEN Tail(grids') = shifted
                   ELSE grids' = shifted]_vars

\* A live snake that has moved off the start cell without eating.
C7_Witness ==
    /\ alive(grids)
    /\ score = 0
    /\ Len(grids) = SNAKE_PROPS.length
    /\ grids[1] # SNAKE_PROPS.pos

\* C8: an eat makes the body the target cell (head + heading vector, taken
\* before the call) followed by the whole body it was called on, and leaves
\* the heading alone; the body it is called on is the body the move of the
\* same frame produced.
C8_EatGrowsByTarget ==
    [][(FrameStep /\ score' # score)
          => LET v == MOTIONS[direction]
                 old == <<Plus(grids[1], v)>> \o Front(grids)
             IN /\ grids' = <<Plus(old[1], v)>> \o old
                /\ Len(grids') = Len(old) + 1
                /\ direction' = direction]_vars

\* A live snake longer than the start length: it has eaten.
C8_Witness == alive(grids) /\ Len(grids) = SNAKE_PROPS.length + 2 /\ score > 0

\* C9: across every step that is no reset the score stays or grows by
\* exactly 50, it grows only in a frame in which the snake moves onto the
\* food and eats, and the speed never decreases.
C9_ScoreAndSpeedSteps ==
    [][~(~alive(grids) /\ KeyReturn)
          => /\ score' = score \/ score' = score + 50
             /\ score' # score
                   => /\ FrameStep
                      /\ alive(grids)
                      /\ Plus(grids[1], MOTIONS[direction]) = food
                      /\ Len(grids') = Len(grids) + 1
             /\ speed' >= speed]_vars

\* The score after two eats.
C9_Witness == score = 100 /\ speed = 4

\* C10: in every reachable state the speed is 4 plus the number of
\* thresholds of SCORES that are <= the score.
C10_SpeedFromScore ==
    speed = 4 + Cardinality({i \in DOMAIN SCORES : SCORES[i] <= score})

\* The first threshold reached: score 150, speed 5.
C10_Witness == score = 150 /\ speed = 5

\* two cells one unit step apart
Adjacent(a, b) ==
    \/ a[1] = b[1] /\ (a[2] - b[2] = 1 \/ b[2] - a[2] = 1)
    \/ a[2] = b[2] /\ (a[1] - b[1] = 1 \/ b[1] - a[1] = 1)

\* C11: a restart input while the snake is alive leaves the cells, the
\* heading, the score, the speed and the food alone; a step that takes the
\* score back starts from a snake that is not alive.
C11_RestartOnlyWhenDead ==
    [][/\ (alive(grids) /\ KeyReturn)
              => UNCHANGED <<grids, direction, score, speed, food>>
       /\ score' < score => (~alive(grids) /\ KeyReturn)]_vars

\* A live snake in a round with progress to lose: it has moved and eaten.
C11_Witness ==
    /\ alive(grids)
    /\ score > 0
    /\ \A i \in DOMAIN grids : InGrid(grids[i])

\* C12: a restart input in the game-over state gives a live snake on the
\* fixed start cells (start cell first, three cells, extending backward
\* along the start heading, which is the heading drawn for the first round),
\* score 0, speed 4, and food on a grid cell off the snake.
C12_RestartGivesStartState ==
    [][(~alive(grids) /\ KeyReturn)
          => /\ grids' = [i \in 1..3 |->
                            <<SNAKE_PROPS.pos[1] - (i - 1) * MOTIONS[props_direction][1],
                              SNAKE_PROPS.pos[2] - (i - 1) * MOTIONS[props_direction][2]>>]
             /\ alive(grids')
             /\ direction' = props_direction
             /\ props_direction' = props_direction
             /\ score' = 0
             /\ speed' = 4
             /\ food' \in GridCells
             /\ food' \notin cells(grids')]_vars

\* A round that ended by the snake running into its own body, after it had
\* eaten and with a heading other than the start heading.
C12_Witness ==
    /\ ~alive(grids)
    /\ grids[1] # grids[2]
    /\ score > 0
    /\ direction # props_direction

\* C16: in every reachable state every body cell lies inside the grid.
C16_BodyInGrid == \A i \in DOMAIN grids : InGrid(grids[i])

\* C17: consecutive body cells are one unit step apart, except that the
\* head and the second cell may be the same cell, and then the head has no
\* room on at least one side (it stands at the boundary of the grid).
C17_BodyConnected ==
    \A i \in 1..(Len(grids) - 1) :
        \/ Adjacent(grids[i], grids[i + 1])
        \/ /\ i = 1
           /\ grids[1] = grids[2]
           /\ \E d \in DIRECTIONS : ~InGrid(Plus(grids[1], MOTIONS[d]))

\* A grown snake with a bend whose head was duplicated by a boundary move.
C17_Witness ==
    /\ Len(grids) >= 5
    /\ grids[1] = grids[2]
    /\ score > 0
    /\ \E i \in 2..(Len(grids) - 2) :
          grids[i][1] # grids[i + 2][1] /\ grids[i][2] # grids[i + 2][2]

\* C18: while the snake is alive and has at least two cells, the target
\* cell (head + heading vector) is not the second body cell.
C18_TargetIsNotNeck ==
    (alive(grids) /\ Len(grids) >= 2)
        => Plus(grids[1], MOTIONS[direction]) # grids[2]

\* A live grown snake that has been turned since its last move.
C18_Witness ==
    /\ alive(grids)
    /\ Len(grids) >= 4
    /\ MOTIONS[direction] # NeckToHead(grids)

\* C20: while the snake is alive, score = 50 * (body length - start length).
C20_ScoreFromLength ==
    alive(grids) => score = 50 * (Len(grids) - 3)

\* A live snake after three eats.
C20_Witness == alive(grids) /\ Len(grids) = 6 /\ score = 150

\* ------------------------------------------------- the methods on their own
\* The Snake methods called directly, as by the doctest of the class: a
\* snake built by Snake.__init__ from any start cell, length and heading
\* whose cells fit the grid, then set_direction and move in any order.

\* State after Snake(pos, length, speed, direction)
SnakeInit ==
    \E pos \in GridCells, length \in 1..MaxUnitLen, dir \in DIRECTIONS :
        /\ \A i \in 0..(length - 1) :
              InGrid(<<pos[1] - i * MOTIONS[dir][1], pos[2] - i * MOTIONS[dir][2]>>)
        /\ grids = init_grids(pos, length, dir)
        /\ direction = dir
        /\ speed = SNAKE_PROPS.speed
        /\ food = <<0, 0>>
        /\ score = 0
        /\ props_direction = dir
        /\ call = [op |-> "Snake", arg |-> <<pos, length, dir>>, raised |-> FALSE]

\* snake.set_direction(d)
CallSetDirection(d) ==
    /\ direction' = IF set_direction_raises(grids)
                    THEN direction
                    ELSE set_direction(grids, direction, d)
    /\ call' = [op |-> "set_direction", arg |-> <<d>>,
                raised |-> set_direction_raises(grids)]
    /\ UNCHANGED <<grids, speed, food, score, props_direction>>

\* snake.move(), on a live snake as in Game.run
CallMove ==
    /\ alive(grids)
    /\ grids' = move(grids, direction)
    /\ call' = [op |-> "move", arg |-> <<>>, raised |-> FALSE]
    /\ UNCHANGED <<direction, speed, food, score, props_direction>>

SnakeNext ==
    \/ \E d \in DIRECTIONS : CallSetDirection(d)
    \/ CallMove

SnakeSpec == SnakeInit /\ [][SnakeNext]_vars

\* Game.generate_food called on long bodies.  Winding is the path through
\* every cell of the grid, row after row, alternately left to right and
\* right to left; a body is a stretch of it, walked in either direction.
Winding ==
    [k \in 1..(nx * ny) |->
        LET y == (k - 1) \div nx
            c == (k - 1) % nx
        IN <<IF y % 2 = 0 THEN c ELSE nx - 1 - c, y>>]

\* the stretch a..b of Winding with its head at b, or at a when flipped
Stretch(a, b, flipped) ==
    [i \in 1..(b - a + 1) |-> IF flipped THEN Winding[a + i - 1] ELSE Winding[b - i + 1]]

\* the heading whose vector is v
HeadingOf(v) == CHOOSE d \in DIRECTIONS : MOTIONS[d] = v

\* State of a Game whose snake has just eaten, before generate_food
FoodInit ==
    \E a \in 1..(nx * ny), b \in 1..(nx * ny), flipped \in BOOLEAN :
        /\ b - a + 1 >= nx * ny - MaxFree
        /\ grids = Stretch(a, b, flipped)
        /\ direction = HeadingOf(NeckToHead(grids))
        /\ props_direction = direction
        /\ score = REWARD * (Len(grids) - SNAKE_PROPS.length)
        /\ speed = new_speed(score)
        /\ food = grids[2]
        /\ call = GAME

\* game.generate_food(): choice(foods) raises IndexError on an empty list
CallGenerateFood ==
    /\ IF generate_food(grids) = {}
       THEN /\ UNCHANGED food
            /\ call' = [op |-> "generate_food", arg |-> <<>>, raised |-> TRUE]
       ELSE /\ food' \in generate_food(grids)
            /\ call' = [op |-> "generate_food", arg |-> <<>>, raised |-> FALSE]
    /\ UNCHANGED <<grids, direction, speed, score, props_direction>>

FoodNext == CallGenerateFood

FoodSpec == FoodInit /\ [][FoodNext]_vars

\* C13: set_direction(d) on a snake of one cell does not raise and makes the
\* heading d.
C13_SingleCellTurnAccepted ==
    [][(call'.op = "set_direction" /\ Len(grids) = 1)
          => (~call'.raised /\ direction' = call'.arg[1])]_vars

\* C14: Snake(p, n, d) has exactly the n cells p - i * vec(d), i = 0..n-1,
\* head first, heading d, and is alive.
C14_ConstructedCells ==
    call.op = "Snake"
        => LET p == call.arg[1]
               n == call.arg[2]
               d == call.arg[3]
           IN /\ Len(grids) = n
              /\ \A i \in 0..(n - 1) :
                    grids[i + 1] = <<p[1] - i * MOTIONS[d][1], p[2] - i * MOTIONS[d][2]>>
              /\ direction = d
              /\ alive(grids)

\* A snake of three cells just built heading up: its body runs downward.
C14_Witness ==
    /\ call.op = "Snake"
    /\ call.arg[2] = 3
    /\ call.arg[3] = "up"
    /\ grids[3][2] = grids[1][2] + 2

\* C15: on a snake of two or more cells set_direction(d) does not raise,
\* leaves the cells alone, keeps the heading when d's vector is the negation
\* of the neck-to-head vector and makes the heading d otherwise.
C15_TurnRule ==
    [][(call'.op = "set_direction" /\ Len(grids) >= 2)
          => LET d == call'.arg[1]
             IN /\ ~call'.raised
                /\ grids' = grids
                /\ direction' = IF MOTIONS[d] = Neg(NeckToHead(grids))
                                THEN direction
                                ELSE d]_vars

\* A moved snake whose last set_direction asked for the reverse of its
\* neck-to-head vector and was ignored.
C15_Witness ==
    /\ call.op = "set_direction"
    /\ Len(grids) >= 2
    /\ MOTIONS[call.arg[1]] = Neg(NeckToHead(grids))
    /\ direction # call.arg[1]
    /\ grids[1] # grids[2]

\* C19 as claimed: the food placement raises exactly when the snake occupies
\* every cell of the grid, and otherwise puts the food on a free grid cell.
C19_FailsIffBoardFull ==
    [][call'.op = "generate_food"
          => /\ call'.raised <=> (GridCells \subseteq cells(grids))
             /\ ~call'.raised => (food' \in GridCells /\ food' \notin cells(grids))]_vars

\* C19 as amended: the food placement raises exactly when the snake occupies
\* every cell of the grid other than the four corners, and otherwise puts the
\* food on a free grid cell.
C19_FailsIffNoFreeNonCorner ==
    [][call'.op = "generate_food"
          => /\ call'.raised <=> ((GridCells \ Corners) \subseteq cells(grids))
             /\ ~call'.raised => (food' \in GridCells /\ food' \notin cells(grids))]_vars

\* The placement has raised although a cell of the grid is free.
C19_Witness ==
    /\ call.op = "generate_food"
    /\ call.raised
    /\ \E c \in GridCells : c \notin cells(grids)
====
